---- MODULE Spec2Model ----
(***************************************************************************)
(* Differential execution core of cryptofuzz (src/executor.cpp).           *)
(*                                                                         *)
(* Spec     : ExecutorBase::Run, one fuzzer buffer driven through the      *)
(*            draw loop, the fan-out, the task loop and compare.           *)
(* SpecCall : callModule of every operation family applied to one          *)
(*            (module, operation) pair under one option set.               *)
(*                                                                         *)
(* std::optional<T> is a sequence of length 0 (nullopt) or 1.  A bignum    *)
(* is the pair of its leading-zero count and its significant digit count:  *)
(* GetSize counts both, ToTrimmedString().size() only the digits.          *)
(***************************************************************************)
EXTENDS Integers, Sequences, FiniteSets, TLC

VARIABLES
    executor,     \* the executor class: the operation family, or a modular BignumCalc variant
    options,      \* ExecutorBase::options
    data,         \* the operation parsed from the fuzzer buffer (data, size), modifier excluded
    parentDs,     \* what the parent Datasource can yield: modifiers, module ids, bools
    backend,      \* per module id, the values its Op method can return
    operations,   \* Run: std::vector< std::pair<Module, OperationType> > operations
    results,      \* Run: ResultSet results
    idx,          \* Run: loop index i of the task loop (0-based)
    pc,           \* position in Run / in the callModule harness
    abortReason,  \* optional reason given to ExecutorBase::abort
    dispatched,   \* history: (module, op) pairs handed to callModule, in order
    calls,        \* history: invocations of module Op methods, in order
    drawn,        \* history: the task list after fan-out, before any modifier mutation
    nDrawn,       \* history: number of tasks accepted by the draw loop
    jsonDump,     \* the records written to options.jsonDumpFP
    tested,       \* the (op, result) pairs handed to tests::test
    probed,       \* the regions handed to fuzzing::memory::memory_test_msan
    pools,        \* the entries set in the Pool_* stores
    replay,       \* a second Run on the same inputs: the draws and module outcomes of the first
    lastDraw      \* history: the module id and the loop condition of the latest draw iteration

vars == <<executor, options, data, parentDs, backend, operations, results, idx,
          pc, abortReason, dispatched, calls, drawn, nDrawn, jsonDump, tested, probed, pools,
          replay, lastDraw>>

config == <<executor, options, data, parentDs, backend>>
sinks == <<jsonDump, tested, probed, pools>>

nullopt == <<>>
Some(v) == <<v>>

(***************************************************************************)
(* Bounds of the model.                                                    *)
(***************************************************************************)
NumModules == 3

(***************************************************************************)
(* Program constants.                                                      *)
(***************************************************************************)
kMaxBignumSize == 4000
MaxPrivSize == 4096
ModifierFill == 512
MaxOperations == 3

(***************************************************************************)
(* Algorithm identifiers and the option filters.                           *)
(***************************************************************************)
Digests == {"SHA1", "SHA256"}
Ciphers == {"AES_128_GCM", "AES_128_OCB", "AES_192_OCB", "DES_EDE3_WRAP"}
Curves == {"secp256k1", "ed25519", "ed448", "BLS12_381"}
CalcOps == {"Add(A,B)", "Rand()", "SetBit(A,B)", "Exp(A,B)", "ModLShift(A,B,C)", "Exp2(A)"}

\* Options::Have of an inclusion set.
Have(option, id) == id \in option

\* RETURN_IF_DISABLED(option, id): TRUE when the macro returns std::nullopt.
RETURN_IF_DISABLED(option, id) == ~Have(option, id)

\* disableModules.HaveExplicit(id)
HaveExplicit(option, id) == id \in option

(***************************************************************************)
(* Bignums: leading zeros and significant digits of the decimal string.    *)
(***************************************************************************)
Bignum(z, d) == [zeros |-> z, digits |-> d]
GetSize(bn) == bn.zeros + bn.digits
ToTrimmedStringSize(bn) == bn.digits

(***************************************************************************)
(* The module registry: std::map<uint64_t, std::shared_ptr<Module>>.       *)
(* A module handle is its ID; module 1 has no modular bignum arithmetic.   *)
(***************************************************************************)
ModuleIDs == 1..NumModules
UnknownModuleID == NumModules + 1
modules == [id \in ModuleIDs |-> [ID |-> id, SupportsModularBignumCalc |-> id # 1]]

(***************************************************************************)
(* The executor classes.  Family(e) is the operation type of executor e.   *)
(***************************************************************************)
ModularExecutors == {"BignumCalc_Mod_BLS12_381_R", "BignumCalc_Mod_BLS12_381_P", "BignumCalc_Mod_2Exp256"}

Families ==
    {"Digest", "HMAC", "CMAC", "SymmetricEncrypt", "SymmetricDecrypt",
     "KDF_SCRYPT", "KDF_HKDF", "KDF_PBKDF", "KDF_PBKDF1", "KDF_PBKDF2", "KDF_ARGON2",
     "KDF_SSH", "KDF_TLS1_PRF", "KDF_X963", "KDF_BCRYPT", "KDF_SP_800_108",
     "ECC_PrivateToPublic", "ECC_ValidatePubkey", "ECC_GenerateKeyPair",
     "ECDSA_Sign", "ECDSA_Verify", "ECDH_Derive", "ECIES_Encrypt", "ECIES_Decrypt",
     "DH_Derive", "DH_GenerateKeyPair", "BignumCalc",
     "BLS_PrivateToPublic", "BLS_Sign", "BLS_Verify", "BLS_Pairing",
     "BLS_HashToG1", "BLS_HashToG2", "BLS_IsG1OnCurve", "BLS_IsG2OnCurve",
     "BLS_GenerateKeyPair", "BLS_Decompress_G1", "BLS_Compress_G1",
     "BLS_Decompress_G2", "BLS_Compress_G2", "Misc", "SR25519_Verify"}

Executors == Families \cup ModularExecutors

Family(e) == IF e \in ModularExecutors THEN "BignumCalc" ELSE e

\* ExecutorBignumCalc::modulo, set by SetModulo in the constructors of the variants.
ExecutorModulo(e) ==
    CASE e = "BignumCalc_Mod_BLS12_381_R" ->
            Some("52435875175126190479447740508185965837690552500527637822603658699938581184513")
      [] e = "BignumCalc_Mod_BLS12_381_P" ->
            Some("4002409555221667393417789825735904156556882819939007885332058136124031650490837864442687629129015664037894272559787")
      [] e = "BignumCalc_Mod_2Exp256" ->
            Some("115792089237316195423570985008687907853269984665640564039457584007913129639936")
      [] OTHER -> nullopt

(***************************************************************************)
(* callModule: the early returns of each specialization.                   *)
(***************************************************************************)
\* Variant of the private-key cap that measures the raw size instead of the trimmed string.
PrivSizeRejected_RawSize(priv) == GetSize(priv) = 0 \/ GetSize(priv) > MaxPrivSize

\* size == 0 || size > 4096 on op.priv.ToTrimmedString().size()
PrivSizeRejected(priv) ==
    LET size == ToTrimmedStringSize(priv) IN size = 0 \/ size > MaxPrivSize

\* Variant of the size cap that admits one digit more.
TooBig_OneMore(bn) == GetSize(bn) > kMaxBignumSize + 1

\* bn.GetSize() > config::kMaxBignumSize
TooBig(bn) == GetSize(bn) > kMaxBignumSize

\* Variant of the per-operation caps whose Exp base cap admits one digit more.
CalcOpRejected_ExpOneMore(op) ==
    CASE op.calcOp = "SetBit(A,B)" -> GetSize(op.bn1) > 4
      [] op.calcOp = "Exp(A,B)" -> GetSize(op.bn0) > 6 \/ GetSize(op.bn1) > 2
      [] op.calcOp = "ModLShift(A,B,C)" -> GetSize(op.bn1) > 4
      [] op.calcOp = "Exp2(A)" -> GetSize(op.bn0) > 4
      [] OTHER -> FALSE

\* The switch on op.calcOp in ExecutorBignumCalc::callModule.
CalcOpRejected(op) ==
    CASE op.calcOp = "SetBit(A,B)" -> GetSize(op.bn1) > 4
      [] op.calcOp = "Exp(A,B)" -> GetSize(op.bn0) > 5 \/ GetSize(op.bn1) > 2
      [] op.calcOp = "ModLShift(A,B,C)" -> GetSize(op.bn1) > 4
      [] op.calcOp = "Exp2(A)" -> GetSize(op.bn0) > 4
      [] OTHER -> FALSE

\* Variant of ExecutorBignumCalc::callModule without the SupportsModularBignumCalc check.
BignumCalcGated_NoModularCheck(module, op) ==
    \/ RETURN_IF_DISABLED(options.calcOps, op.calcOp)
    \/ TooBig(op.bn0)
    \/ TooBig(op.bn1)
    \/ TooBig(op.bn2)
    \/ TooBig(op.bn3)
    \/ CalcOpRejected(op)

\* ExecutorBignumCalc::callModule up to the call of module->OpBignumCalc.
BignumCalcGated(module, op) ==
    \/ RETURN_IF_DISABLED(options.calcOps, op.calcOp)
    \/ TooBig(op.bn0)
    \/ TooBig(op.bn1)
    \/ TooBig(op.bn2)
    \/ TooBig(op.bn3)
    \/ (op.modulo # nullopt /\ ~modules[module].SupportsModularBignumCalc)
    \/ CalcOpRejected(op)

\* ExecutorBase<bool, ECDSA_Verify>::callModule up to the call of the module: the
\* sizes of the public key and the signature are not constrained.
ECDSA_VerifyGated(op) ==
    \/ RETURN_IF_DISABLED(options.curves, op.curveType)
    \/ RETURN_IF_DISABLED(options.digests, op.digestType)

\* Variant of the BLS_Verify callModule with the size loop compiled in.
BLS_VerifyGated_SizeLoop(op) ==
    \E bn \in {op.pub[1], op.pub[2], op.signature[1], op.signature[2]} :
        ToTrimmedStringSize(bn) = 0 \/ ToTrimmedStringSize(bn) > 4096

\* ExecutorBase<bool, BLS_Verify>::callModule up to the call of the module: the size
\* loop is under #if 0.
BLS_VerifyGated(op) == FALSE

\* TRUE when callModule of family f returns std::nullopt without calling the module.
Gated(f, module, op) ==
    CASE f \in {"Digest", "HMAC", "KDF_HKDF", "KDF_PBKDF", "KDF_PBKDF1", "KDF_PBKDF2",
                "KDF_SSH", "KDF_TLS1_PRF", "KDF_X963", "KDF_BCRYPT"} ->
            RETURN_IF_DISABLED(options.digests, op.digestType)
      [] f \in {"CMAC", "SymmetricEncrypt", "SymmetricDecrypt"} ->
            RETURN_IF_DISABLED(options.ciphers, op.cipherType)
      [] f \in {"KDF_SCRYPT", "KDF_ARGON2"} -> FALSE
      [] f = "KDF_SP_800_108" ->
            op.mechMode = TRUE /\ RETURN_IF_DISABLED(options.digests, op.mechType)
      [] f = "ECC_PrivateToPublic" ->
            RETURN_IF_DISABLED(options.curves, op.curveType) \/ PrivSizeRejected(op.priv)
      [] f \in {"ECC_ValidatePubkey", "ECC_GenerateKeyPair", "ECDH_Derive",
                "ECIES_Encrypt", "ECIES_Decrypt"} ->
            RETURN_IF_DISABLED(options.curves, op.curveType)
      [] f = "ECDSA_Sign" ->
            \/ RETURN_IF_DISABLED(options.curves, op.curveType)
            \/ RETURN_IF_DISABLED(options.digests, op.digestType)
            \/ PrivSizeRejected(op.priv)
      [] f = "ECDSA_Verify" -> ECDSA_VerifyGated(op)
      [] f = "BLS_Verify" -> BLS_VerifyGated(op)
      [] f = "DH_Derive" ->
            TooBig(op.prime) \/ TooBig(op.base) \/ TooBig(op.pub) \/ TooBig(op.priv)
      [] f = "DH_GenerateKeyPair" -> TooBig(op.prime) \/ TooBig(op.base)
      [] f = "BignumCalc" -> BignumCalcGated(module, op)
      [] f \in {"BLS_PrivateToPublic", "BLS_Sign"} -> PrivSizeRejected(op.priv)
      [] f = "BLS_IsG1OnCurve" -> TooBig(op.g1[1]) \/ TooBig(op.g1[2])
      [] f = "BLS_IsG2OnCurve" ->
            TooBig(op.g2[1]) \/ TooBig(op.g2[2]) \/ TooBig(op.g2[3]) \/ TooBig(op.g2[4])
      [] f \in {"BLS_Pairing", "BLS_HashToG1", "BLS_HashToG2",
                "BLS_GenerateKeyPair", "BLS_Decompress_G1", "BLS_Compress_G1",
                "BLS_Decompress_G2", "BLS_Compress_G2", "Misc", "SR25519_Verify"} -> FALSE

\* callModule(module, op), ret being what the module's Op method returns if called.
callModule(module, op, ret) ==
    IF Gated(Family(executor), module, op)
    THEN [result |-> nullopt, invoked |-> FALSE]
    ELSE [result |-> ret, invoked |-> TRUE]

(***************************************************************************)
(* Operations.  Every operation carries a modifier; the other fields are   *)
(* those of its family that the executor reads.  OpsOf(f) is the bounded   *)
(* set of operations of family f that callModule is applied to.            *)
(***************************************************************************)
NoModifier == <<>>

PrivKeys ==
    {Bignum(0, 0), Bignum(0, 1), Bignum(0, MaxPrivSize), Bignum(0, MaxPrivSize + 1),
     Bignum(1, MaxPrivSize)}

BigBignums == {Bignum(0, 1), Bignum(0, kMaxBignumSize), Bignum(0, kMaxBignumSize + 1)}

OtherModulo == "7"

\* The (first, second) components of a public key or signature handed to a verifier.
VerifierPairs ==
    {<<Bignum(0, 1), Bignum(0, 1)>>, <<Bignum(0, 0), Bignum(0, MaxPrivSize + 1)>>,
     <<Bignum(0, kMaxBignumSize + 1), Bignum(0, 1)>>}

OpsOf(f) ==
    CASE f \in {"Digest", "KDF_HKDF", "KDF_PBKDF", "KDF_PBKDF1", "KDF_PBKDF2",
                "KDF_SSH", "KDF_TLS1_PRF", "KDF_X963", "KDF_BCRYPT"} ->
            [modifier : {NoModifier}, digestType : Digests]
      [] f = "HMAC" -> [modifier : {NoModifier}, digestType : Digests, cipherType : Ciphers]
      [] f \in {"CMAC", "SymmetricDecrypt"} -> [modifier : {NoModifier}, cipherType : Ciphers]
      [] f = "SymmetricEncrypt" ->
            [modifier : {NoModifier}, cipherType : Ciphers, cleartext : {<<>>, <<1>>},
             tagSize : {nullopt, Some(16)}, aad : {nullopt}]
      [] f = "KDF_SP_800_108" ->
            {o \in [modifier : {NoModifier}, mechMode : BOOLEAN, mechType : Digests \cup Ciphers] :
                o.mechMode <=> o.mechType \in Digests}
      [] f \in {"ECC_PrivateToPublic"} ->
            [modifier : {NoModifier}, curveType : Curves, priv : PrivKeys]
      [] f \in {"ECC_ValidatePubkey", "ECC_GenerateKeyPair", "ECDH_Derive", "ECIES_Encrypt",
                "ECIES_Decrypt", "BLS_HashToG1", "BLS_HashToG2", "BLS_GenerateKeyPair",
                "BLS_Decompress_G1", "BLS_Decompress_G2", "BLS_Compress_G2"} ->
            [modifier : {NoModifier}, curveType : Curves]
      [] f = "ECDSA_Sign" ->
            [modifier : {NoModifier}, curveType : Curves, digestType : Digests,
             priv : PrivKeys, UseRandomNonce : BOOLEAN]
      [] f = "ECDSA_Verify" ->
            [modifier : {NoModifier}, curveType : Curves, digestType : Digests,
             pub : VerifierPairs, signature : VerifierPairs]
      [] f = "BLS_Verify" ->
            [modifier : {NoModifier}, pub : VerifierPairs, signature : VerifierPairs]
      [] f = "DH_Derive" ->
            [modifier : {NoModifier}, prime : BigBignums, base : BigBignums,
             pub : BigBignums, priv : BigBignums]
      [] f = "DH_GenerateKeyPair" ->
            [modifier : {NoModifier}, prime : BigBignums, base : BigBignums]
      [] f = "BignumCalc" ->
            [modifier : {NoModifier}, calcOp : CalcOps,
             bn0 : {Bignum(0, 4), Bignum(0, 5), Bignum(0, 6), Bignum(0, kMaxBignumSize),
                    Bignum(0, kMaxBignumSize + 1)},
             bn1 : {Bignum(0, 2), Bignum(0, 3), Bignum(0, 4), Bignum(0, 5),
                    Bignum(0, kMaxBignumSize + 1)},
             bn2 : {Bignum(0, 1), Bignum(0, kMaxBignumSize + 1)},
             bn3 : {Bignum(0, 1), Bignum(0, kMaxBignumSize + 1)},
             modulo : {nullopt, Some(OtherModulo)}]
      [] f = "BLS_PrivateToPublic" -> [modifier : {NoModifier}, priv : PrivKeys]
      [] f = "BLS_Sign" ->
            [modifier : {NoModifier}, curveType : Curves, priv : PrivKeys]
      [] f = "BLS_IsG1OnCurve" ->
            [modifier : {NoModifier}, g1 : BigBignums \X BigBignums]
      [] f = "BLS_IsG2OnCurve" ->
            [modifier : {NoModifier},
             g2 : BigBignums \X BigBignums \X BigBignums \X BigBignums]
      [] f \in {"KDF_SCRYPT", "KDF_ARGON2", "BLS_Pairing", "BLS_Compress_G1",
                "Misc", "SR25519_Verify"} ->
            [modifier : {NoModifier}]

(***************************************************************************)
(* Options.                                                                *)
(***************************************************************************)
DefaultOptions ==
    [digests |-> Digests, ciphers |-> Ciphers, curves |-> Curves, calcOps |-> CalcOps,
     disableModules |-> {}, forceModule |-> nullopt, minModules |-> 1,
     noDecrypt |-> FALSE, noCompare |-> FALSE, disableTests |-> FALSE,
     jsonDumpFP |-> nullopt]

\* Option sets with some algorithm ids disabled.
FilterOptions ==
    {[DefaultOptions EXCEPT !.digests = d, !.ciphers = c, !.curves = v, !.calcOps = k] :
        d \in {Digests, {"SHA256"}}, c \in {Ciphers, {"AES_128_GCM"}},
        v \in {Curves, {"secp256k1"}}, k \in {CalcOps, CalcOps \ {"Exp(A,B)", "Rand()"}}}

\* A result value: val identifies the value (equal results have equal val) and size
\* is the length of its byte region, or of each of its trimmed decimal strings; a
\* Ciphertext also has an optional tag.
Result(f, v, n) ==
    IF f = "SymmetricEncrypt"
    THEN [val |-> v, size |-> n, tag |-> IF v = 1 THEN Some(v) ELSE nullopt]
    ELSE [val |-> v, size |-> n]

\* What a module's Op method of family f may return: nullopt, or a result.
ModuleReturns(f) == {nullopt, Some(Result(f, 1, 1)), Some(Result(f, 2, 1))}

(***************************************************************************)
(* A second Run on the same inputs.  When replay.on, the modules are        *)
(* deterministic functions of their operation (an outcome once returned for *)
(* an operation is returned again), the first Run records what the parent   *)
(* Datasource yields and the second Run reads the same values; the pools    *)
(* and PRNG() are not inputs and carry over or vary.                        *)
(***************************************************************************)
NoReplay == [on |-> FALSE, run |-> 1, pos |-> 0, tape |-> <<>>, memo |-> {}, first |-> nullopt]

\* The parent Datasource yields the values of the first Run to the second.
Yields(yield) ==
    (replay.on /\ replay.run = 2) =>
       replay.pos < Len(replay.tape) /\ yield = replay.tape[replay.pos + 1]

\* The Datasource after one iteration of the draw loop.
Consumed(yield) ==
    IF ~replay.on THEN replay
    ELSE IF replay.run = 1 THEN [replay EXCEPT !.tape = Append(@, yield)]
    ELSE [replay EXCEPT !.pos = @ + 1]

\* What module's Op method can return for op.
ModuleOutcomes(module, op) ==
    LET known == {m \in replay.memo : m.module = module /\ m.op = op} IN
      IF replay.on /\ known # {} THEN {m.ret : m \in known} ELSE backend[module]

\* The outcome of module on op, kept when the modules are deterministic.
Remembered(module, op, ret) ==
    IF replay.on
    THEN [replay EXCEPT !.memo = @ \cup {[module |-> module, op |-> op, ret |-> ret]}]
    ELSE replay

(***************************************************************************)
(* SpecCall: callModule applied to one (module, operation) pair.           *)
(***************************************************************************)
InitCall ==
    /\ executor \in Families
    /\ options \in FilterOptions
    /\ data \in OpsOf(executor)
    /\ parentDs = [modifiers |-> {NoModifier}, moduleIDs |-> ModuleIDs, bools |-> BOOLEAN]
    /\ backend = [id \in ModuleIDs |-> {nullopt, Some(Result(executor, 1, 1))}]
    /\ \E m \in {1, 2} : operations = <<[module |-> m, op |-> data]>>
    /\ results = <<>>
    /\ idx = 0
    /\ pc = "call"
    /\ abortReason = nullopt
    /\ dispatched = <<>>
    /\ calls = <<>>
    /\ drawn = operations
    /\ nDrawn = 1
    /\ jsonDump = <<>>
    /\ tested = <<>>
    /\ probed = <<>>
    /\ pools = {}
    /\ replay = NoReplay
    /\ lastDraw = nullopt

\* The invocation record of a module's Op method.
Invocation(module, method, op, ret) ==
    [module |-> module, method |-> method, op |-> op, ret |-> ret]

CallStep ==
    /\ pc = "call"
    /\ LET task == operations[1] IN
       \E ret \in backend[task.module] :
          LET r == callModule(task.module, task.op, ret) IN
            /\ results' = Append(results, [module |-> task.module, result |-> r.result])
            /\ dispatched' = Append(dispatched, task)
            /\ calls' = IF r.invoked
                        THEN Append(calls, Invocation(task.module, Family(executor), task.op, ret))
                        ELSE calls
    /\ pc' = "called"
    /\ UNCHANGED <<config, operations, idx, abortReason, drawn, nDrawn, sinks, replay, lastDraw>>

NextCall == CallStep

SpecCall == InitCall /\ [][NextCall]_vars

(***************************************************************************)
(* Run: building the task list.                                            *)
(***************************************************************************)
nullptr == nullopt

\* Variant of getOpPostprocess that is the default (identity) for every executor.
getOpPostprocess_Default(op) == op

\* The modular variants stamp the executor's modulo; the default returns op unchanged.
getOpPostprocess(op) ==
    IF executor \in ModularExecutors
    THEN [op EXCEPT !.modulo = ExecutorModulo(executor)]
    ELSE op

\* Variant of getOp that reads the digest of a Digest operation from where the parent
\* Datasource stands instead of from the start of the buffer.
getOp_InputsFromParent(modifier) ==
    IF executor = "Digest" /\ modifier # NoModifier
    THEN getOpPostprocess([data EXCEPT !.modifier = modifier, !.digestType = "SHA1"])
    ELSE getOpPostprocess([data EXCEPT !.modifier = modifier])

\* Variant of getOp that builds the operation from the pools once they hold an entry.
getOp_FromPool(modifier) ==
    getOpPostprocess([data EXCEPT !.modifier = IF pools = {} THEN modifier ELSE <<7>>])

\* getOp(&parentDs, data, size), modifier being parentDs->GetData(0).
getOp(modifier) == getOpPostprocess([data EXCEPT !.modifier = modifier])

\* getModule(ds), moduleID being ds.Get<uint64_t>(); nullptr or the module handle.
getModule(moduleID) ==
    LET id == IF options.forceModule # nullopt THEN options.forceModule[1] ELSE moduleID IN
      IF HaveExplicit(options.disableModules, id) THEN nullptr
      ELSE IF id \notin DOMAIN modules THEN nullptr
      ELSE Some(id)

\* Variant of the enumeration that yields the ids in descending order.
RECURSIVE Ascending_Descending(_)
Ascending_Descending(S) ==
    IF S = {} THEN <<>>
    ELSE LET m == CHOOSE x \in S : \A y \in S : x >= y
         IN <<m>> \o Ascending_Descending(S \ {m})

\* The elements of a finite set of integers in ascending order (std::set iteration).
RECURSIVE Ascending(_)
Ascending(S) ==
    IF S = {} THEN <<>>
    ELSE LET m == CHOOSE x \in S : \A y \in S : x <= y IN <<m>> \o Ascending(S \ {m})

\* Variant of the fan-out that adds no module when a module is forced.
addModuleIDs_NoneWhenForced(ops) ==
    LET moduleIDs == {id \in DOMAIN modules : ~HaveExplicit(options.disableModules, id)}
        operationModuleIDs == {ops[k].module : k \in 1..Len(ops)}
    IN IF options.forceModule # nullopt THEN <<>>
       ELSE Ascending(moduleIDs \ operationModuleIDs)

\* Variant of the fan-out that finds no module missing.
addModuleIDs_None(ops) == <<>>

\* The module ids the fan-out adds: registered, not disabled, absent from the task list.
addModuleIDs(ops) ==
    LET moduleIDs == {id \in DOMAIN modules : ~HaveExplicit(options.disableModules, id)}
        operationModuleIDs == {ops[k].module : k \in 1..Len(ops)}
    IN Ascending(moduleIDs \ operationModuleIDs)

\* The task list after the fan-out block.
FanOut(ops) ==
    LET add == addModuleIDs(ops) IN
      ops \o [k \in 1..Len(add) |-> [module |-> add[k], op |-> ops[1].op]]

(***************************************************************************)
(* ECDH_Derive: getOpPostprocess may replace the operation by one built     *)
(* from two public keys it asks a module for.  A substitution is what the   *)
(* parent Datasource yields to it (the bit, the module id, the two          *)
(* ECC_PrivateToPublic operations) and what the two module calls return.    *)
(***************************************************************************)
NoSubstitution ==
    LET none == [modifier |-> NoModifier, curveType |-> "secp256k1", priv |-> Bignum(0, 1)] IN
      [bit |-> FALSE, moduleID |-> UnknownModuleID, op1 |-> none, op2 |-> none,
       pub1 |-> nullopt, pub2 |-> nullopt]

Substitutions ==
    IF executor = "ECDH_Derive"
    THEN [bit : BOOLEAN, moduleID : {2, UnknownModuleID},
          op1 : [modifier : {<<1>>}, curveType : {"secp256k1", "ed25519"},
                 priv : {Bignum(0, 0), Bignum(0, 1), Bignum(0, MaxPrivSize + 1)}],
          op2 : [modifier : {<<2>>}, curveType : {"secp256k1", "ed25519"},
                 priv : {Bignum(0, 1)}],
          pub1 : {nullopt, Some(3)}, pub2 : {nullopt, Some(4)}]
    ELSE {NoSubstitution}

\* Variant of the substitution that asks for the public keys through the gates of
\* ECC_PrivateToPublic's callModule.
getOpPostprocess_ECDH_Derive_Gated(op, sub) ==
    IF sub.bit = TRUE
    THEN LET module == getModule(sub.moduleID)
             gated1 == Gated("ECC_PrivateToPublic", module[1], sub.op1)
             gated2 == Gated("ECC_PrivateToPublic", module[1], sub.op2)
             call1 == IF gated1 THEN <<>>
                      ELSE <<Invocation(module[1], "ECC_PrivateToPublic", sub.op1, sub.pub1)>>
             call2 == IF gated2 THEN <<>>
                      ELSE <<Invocation(module[1], "ECC_PrivateToPublic", sub.op2, sub.pub2)>>
         IN IF module = nullptr THEN [op |-> op, calls |-> <<>>]
            ELSE IF (sub.op1.curveType = sub.op2.curveType) # TRUE THEN [op |-> op, calls |-> <<>>]
            ELSE IF gated1 \/ sub.pub1 = nullopt THEN [op |-> op, calls |-> call1]
            ELSE IF gated2 \/ sub.pub2 = nullopt THEN [op |-> op, calls |-> call1 \o call2]
            ELSE [op |-> [modifier |-> op.modifier, curveType |-> sub.op1.curveType,
                          pub1 |-> sub.pub1[1], pub2 |-> sub.pub2[1]],
                  calls |-> call1 \o call2]
    ELSE [op |-> op, calls |-> <<>>]

\* Variant of the substitution that returns the new operation although the second
\* public key is missing.
getOpPostprocess_ECDH_Derive_IgnorePub2(op, sub) ==
    IF sub.bit = TRUE
    THEN LET module == getModule(sub.moduleID)
             call1 == Invocation(module[1], "ECC_PrivateToPublic", sub.op1, sub.pub1)
             call2 == Invocation(module[1], "ECC_PrivateToPublic", sub.op2, sub.pub2)
         IN IF module = nullptr THEN [op |-> op, calls |-> <<>>]
            ELSE IF (sub.op1.curveType = sub.op2.curveType) # TRUE THEN [op |-> op, calls |-> <<>>]
            ELSE IF sub.pub1 = nullopt THEN [op |-> op, calls |-> <<call1>>]
            ELSE [op |-> [modifier |-> op.modifier, curveType |-> sub.op1.curveType,
                          pub1 |-> sub.pub1[1], pub2 |-> 0],
                  calls |-> <<call1, call2>>]
    ELSE [op |-> op, calls |-> <<>>]

\* ExecutorBase<Secret, ECDH_Derive>::getOpPostprocess: the operation returned and the
\* module calls made.
getOpPostprocess_ECDH_Derive(op, sub) ==
    IF sub.bit = TRUE
    THEN LET module == getModule(sub.moduleID)
             call1 == Invocation(module[1], "ECC_PrivateToPublic", sub.op1, sub.pub1)
             call2 == Invocation(module[1], "ECC_PrivateToPublic", sub.op2, sub.pub2)
         IN IF module = nullptr THEN [op |-> op, calls |-> <<>>]
            ELSE IF (sub.op1.curveType = sub.op2.curveType) # TRUE THEN [op |-> op, calls |-> <<>>]
            ELSE IF sub.pub1 = nullopt THEN [op |-> op, calls |-> <<call1>>]
            ELSE IF sub.pub2 = nullopt THEN [op |-> op, calls |-> <<call1, call2>>]
            ELSE [op |-> [modifier |-> op.modifier, curveType |-> sub.op1.curveType,
                          pub1 |-> sub.pub1[1], pub2 |-> sub.pub2[1]],
                  calls |-> <<call1, call2>>]
    ELSE [op |-> op, calls |-> <<>>]

\* getOp(&parentDs, data, size) with the module calls its getOpPostprocess makes.
getOpCalls(modifier, sub) ==
    IF executor = "ECDH_Derive"
    THEN getOpPostprocess_ECDH_Derive([data EXCEPT !.modifier = modifier], sub)
    ELSE [op |-> getOp(modifier), calls |-> <<>>]

\* Variant of the draw loop in which a skipped module id leaves the loop.
Draw_SkipEndsDrawing ==
    /\ pc = "draw"
    /\ \E modifier \in parentDs.modifiers, moduleID \in parentDs.moduleIDs,
          more \in parentDs.bools, sub \in Substitutions :
         LET built == getOpCalls(modifier, sub)
             op == built.op
             module == getModule(moduleID)
             yield == [modifier |-> modifier, moduleID |-> moduleID, more |-> more]
         IN /\ Yields(yield)
            /\ replay' = Consumed(yield)
            /\ calls' = calls \o built.calls
            /\ IF module = nullptr
               THEN /\ operations' = operations
                    /\ pc' = "expand"
               ELSE /\ operations' = Append(operations, [module |-> module[1], op |-> op])
                    /\ pc' = IF Len(operations') = MaxOperations \/ ~more
                             THEN "expand" ELSE "draw"
            /\ lastDraw' = Some([moduleID |-> moduleID, sub |-> sub,
                                 more |-> IF module # nullptr /\ Len(operations') = MaxOperations
                                          THEN nullopt ELSE Some(more)])
    /\ UNCHANGED <<config, results, idx, abortReason, dispatched, drawn, nDrawn, sinks>>

\* One iteration of the do-while loop of Run.
Draw ==
    /\ pc = "draw"
    /\ \E modifier \in parentDs.modifiers, moduleID \in parentDs.moduleIDs,
          more \in parentDs.bools, sub \in Substitutions :
         LET built == getOpCalls(modifier, sub)
             op == built.op
             module == getModule(moduleID)
             yield == [modifier |-> modifier, moduleID |-> moduleID, more |-> more]
         IN /\ Yields(yield)
            /\ replay' = Consumed(yield)
            /\ calls' = calls \o built.calls
            /\ IF module = nullptr
               THEN /\ operations' = operations
                    /\ pc' = IF more THEN "draw" ELSE "expand"
               ELSE /\ operations' = Append(operations, [module |-> module[1], op |-> op])
                    /\ pc' = IF Len(operations') = MaxOperations \/ ~more
                             THEN "expand" ELSE "draw"
            /\ lastDraw' = Some([moduleID |-> moduleID, sub |-> sub,
                                 more |-> IF module # nullptr /\ Len(operations') = MaxOperations
                                          THEN nullopt ELSE Some(more)])
    /\ UNCHANGED <<config, results, idx, abortReason, dispatched, drawn, nDrawn, sinks>>

\* The empty check and the fan-out block.
Expand ==
    /\ pc = "expand"
    /\ IF operations = <<>>
       THEN /\ pc' = "returned"
            /\ UNCHANGED <<operations, drawn, nDrawn>>
       ELSE /\ operations' = FanOut(operations)
            /\ drawn' = operations'
            /\ nDrawn' = Len(operations)
            /\ pc' = "gate"
    /\ lastDraw' = nullopt
    /\ UNCHANGED <<config, results, idx, abortReason, dispatched, calls, sinks, replay>>

\* Variant of the minModules gate that also turns away a list of exactly minModules tasks.
MinModulesGate_OffByOne ==
    /\ pc = "gate"
    /\ pc' = IF Len(operations) <= options.minModules THEN "returned" ELSE "exec"
    /\ UNCHANGED <<config, operations, results, idx, abortReason, dispatched, calls,
                   drawn, nDrawn, sinks, replay, lastDraw>>

\* if ( operations.size() < options.minModules ) return;
MinModulesGate ==
    /\ pc = "gate"
    /\ pc' = IF Len(operations) < options.minModules THEN "returned" ELSE "exec"
    /\ UNCHANGED <<config, operations, results, idx, abortReason, dispatched, calls,
                   drawn, nDrawn, sinks, replay, lastDraw>>

(***************************************************************************)
(* postprocess.  Its effects: the regions probed, the pool entries set,    *)
(* the module methods invoked and the reason of an abort, if any.          *)
(***************************************************************************)
OpenSSL == 1

Effects(regions, entries, invocations, reason) ==
    [probed |-> regions, pools |-> entries, calls |-> invocations, abort |-> reason]

NoEffect == Effects(<<>>, {}, <<>>, nullopt)

\* memory_test_msan(ptr, size) on a part of the result of a module.
Region(module, part, res) == [module |-> module, part |-> part, val |-> res.val, size |-> res.size]

\* Pool.Set(entry)
PoolEntry(pool, entry) == [pool |-> pool, entry |-> entry]

\* Variant of the pool admission that admits a string one longer than the cap.
AdmitBignums_OneMore(names, res) ==
    {PoolEntry("Pool_Bignum", <<n, res.val, res.size>>) :
        n \in {x \in names : res.size <= kMaxBignumSize + 1}}

\* if ( s.size() <= config::kMaxBignumSize ) { Pool_Bignum.Set(s); } for each named string
AdmitBignums(names, res) ==
    {PoolEntry("Pool_Bignum", <<n, res.val, res.size>>) :
        n \in {x \in names : res.size <= kMaxBignumSize}}

\* The families whose postprocess only probes the result.
ProbeFamilies ==
    {"Digest", "HMAC", "CMAC", "SymmetricDecrypt", "KDF_SCRYPT", "KDF_HKDF", "KDF_PBKDF",
     "KDF_PBKDF1", "KDF_PBKDF2", "KDF_ARGON2", "KDF_SSH", "KDF_TLS1_PRF", "KDF_X963",
     "KDF_BCRYPT", "KDF_SP_800_108"}

GcmCcmCiphers ==
    {"AES_128_GCM", "AES_192_GCM", "AES_256_GCM", "AES_128_CCM", "AES_192_CCM", "AES_256_CCM",
     "ARIA_128_CCM", "ARIA_192_CCM", "ARIA_256_CCM", "ARIA_128_GCM", "ARIA_192_GCM",
     "ARIA_256_GCM"}

\* tryDecrypt of the SymmetricEncrypt postprocess.
tryDecrypt(module, op) ==
    IF module = OpenSSL
    THEN CASE op.cipherType \in {"AES_128_OCB", "AES_256_OCB"} -> FALSE
           [] op.cipherType \in GcmCcmCiphers -> op.tagSize # nullopt
           [] OTHER -> TRUE
    ELSE TRUE

\* Variant of the decrypt operation that reuses the modifier of the encrypt operation.
SymmetricDecryptOp_SameModifier(op, res) ==
    [modifier |-> op.modifier, cipherType |-> op.cipherType, ciphertext |-> res,
     cleartextSize |-> Len(op.cleartext) + 32, aad |-> op.aad]

\* operation::SymmetricDecrypt(op, ciphertext, cleartextSize, aad, modifier)
SymmetricDecryptOp(op, res) ==
    [modifier |-> NoModifier, cipherType |-> op.cipherType, ciphertext |-> res,
     cleartextSize |-> Len(op.cleartext) + 32, aad |-> op.aad]

\* What OpSymmetricDecrypt may return for the decrypt operation built from op.
DecryptReturns(op) == {nullopt, Some(op.cleartext), Some(op.cleartext \o <<0>>)}

\* postprocess of SymmetricEncrypt; dec is what module->OpSymmetricDecrypt returns if called.
SymmetricEncryptPostprocess(module, op, result, dec) ==
    IF options.noDecrypt = TRUE THEN NoEffect
    ELSE
      LET res == result[1]
          regions ==
            IF result # nullopt
            THEN <<Region(module, "ciphertext", res)>> \o
                 (IF res.tag # nullopt THEN <<Region(module, "tag", res)>> ELSE <<>>)
            ELSE <<>>
      IN IF Len(op.cleartext) > 0 /\ result # nullopt /\ res.size > 0 /\ tryDecrypt(module, op)
         THEN LET opDecrypt == SymmetricDecryptOp(op, res) IN
                Effects(regions, {},
                        <<Invocation(module, "SymmetricDecrypt", opDecrypt, dec)>>,
                        IF dec = nullopt THEN Some("cannot decrypt ciphertext")
                        ELSE IF dec[1] # op.cleartext THEN Some("cannot decrypt ciphertext")
                        ELSE nullopt)
         ELSE Effects(regions, {}, <<>>, nullopt)

\* The body of if ( result.second != std::nullopt ) of the postprocess of the
\* executor's family, res being *result.second and prng being PRNG() % 4.
postprocessPresent(module, op, res, prng) ==
    LET f == Family(executor) IN
    CASE f \in ProbeFamilies -> Effects(<<Region(module, "result", res)>>, {}, <<>>, nullopt)
      [] f = "ECC_PrivateToPublic" ->
            Effects(<<>>,
                {PoolEntry("Pool_CurvePrivkey", <<op.curveType, op.priv>>),
                 PoolEntry("Pool_CurveKeypair", <<op.curveType, op.priv, res.val>>)}
                \cup AdmitBignums({"pub_x", "pub_y"}, res), <<>>, nullopt)
      [] f = "ECC_GenerateKeyPair" ->
            Effects(<<>>,
                {PoolEntry("Pool_CurvePrivkey", <<op.curveType, res.val>>),
                 PoolEntry("Pool_CurveKeypair", <<op.curveType, res.val>>)}, <<>>, nullopt)
      [] f = "ECDSA_Sign" ->
            Effects(<<>>,
                {PoolEntry("Pool_CurveECDSASignature", <<op.curveType, res.val>>)}
                \cup AdmitBignums({"pub_x", "pub_y", "sig_r", "sig_s"}, res), <<>>, nullopt)
      [] f = "DH_GenerateKeyPair" ->
            IF prng = 0
            THEN Effects(<<>>,
                    {PoolEntry("Pool_DH_PrivateKey", <<res.val>>),
                     PoolEntry("Pool_DH_PublicKey", <<res.val>>)}, <<>>, nullopt)
            ELSE NoEffect
      [] f = "BignumCalc" -> Effects(<<>>, AdmitBignums({"bignum"}, res), <<>>, nullopt)
      [] f = "BLS_Sign" ->
            Effects(<<>>,
                {PoolEntry("Pool_CurveBLSG1", <<op.curveType, res.val>>),
                 PoolEntry("Pool_CurveBLSG2", <<op.curveType, res.val>>),
                 PoolEntry("Pool_CurveBLSSignature", <<op.curveType, res.val>>)}
                \cup AdmitBignums({"pub_x", "pub_y", "sig_v", "sig_w", "sig_x", "sig_y"}, res),
                <<>>, nullopt)
      [] f \in {"BLS_HashToG1", "BLS_Decompress_G1", "BLS_Compress_G2"} ->
            Effects(<<>>,
                {PoolEntry("Pool_CurveBLSG1", <<op.curveType, res.val>>)}
                \cup AdmitBignums({"g1_x", "g1_y"}, res), <<>>, nullopt)
      [] f \in {"BLS_HashToG2", "BLS_Decompress_G2"} ->
            Effects(<<>>,
                {PoolEntry("Pool_CurveBLSG2", <<op.curveType, res.val>>)}
                \cup AdmitBignums({"g2_v", "g2_w", "g2_x", "g2_y"}, res), <<>>, nullopt)
      [] f = "BLS_GenerateKeyPair" ->
            Effects(<<>>,
                {PoolEntry("Pool_CurveBLSG1", <<op.curveType, res.val>>)}
                \cup AdmitBignums({"priv", "g1_x", "g1_y"}, res), <<>>, nullopt)
      [] f = "BLS_Compress_G1" -> Effects(<<>>, AdmitBignums({"compressed"}, res), <<>>, nullopt)
      [] OTHER -> NoEffect

\* Variant of postprocess in which ECC_PrivateToPublic pools the private key of
\* the operation before looking at the result.
postprocess_PrivkeyFirst(module, op, result, prng, dec) ==
    IF Family(executor) = "SymmetricEncrypt"
    THEN SymmetricEncryptPostprocess(module, op, result, dec)
    ELSE IF result = nullopt
    THEN IF Family(executor) = "ECC_PrivateToPublic"
         THEN Effects(<<>>, {PoolEntry("Pool_CurvePrivkey", <<op.curveType, op.priv>>)},
                      <<>>, nullopt)
         ELSE NoEffect
    ELSE postprocessPresent(module, op, result[1], prng)

\* postprocess(module, op, result) of the executor's family.
postprocess(module, op, result, prng, dec) ==
    IF Family(executor) = "SymmetricEncrypt"
    THEN SymmetricEncryptPostprocess(module, op, result, dec)
    ELSE IF result = nullopt THEN NoEffect
    ELSE postprocessPresent(module, op, result[1], prng)

(***************************************************************************)
(* Run: the task loop.                                                     *)
(***************************************************************************)
\* auto& prevOp = operations[i].second;  (i is 1-based here)
prevOp(ops, i) == ops[i].op

\* Variant of the mutation condition without the comparison of the modules.
NeedsMutation_AnyModule(ops, i) ==
    /\ i > 1
    /\ prevOp(ops, i).modifier = ops[i].op.modifier

\* The condition of the modifier mutation for task i.
NeedsMutation(ops, i) ==
    /\ i > 1
    /\ ops[i - 1].module = ops[i].module
    /\ prevOp(ops, i).modifier = ops[i].op.modifier

\* 512 bytes of 0x01 for an empty modifier, else every byte incremented (uint8_t).
MutateModifier(m) ==
    IF Len(m) = 0
    THEN [j \in 1..ModifierFill |-> 1]
    ELSE [j \in 1..Len(m) |-> (m[j] + 1) % 256]

\* The operation task i is dispatched with.
DispatchOp(ops, i) ==
    IF NeedsMutation(ops, i)
    THEN [ops[i].op EXCEPT !.modifier = MutateModifier(@)]
    ELSE ops[i].op

\* The JSON line Run writes for a task: one when the result is present and the
\* dump sink is set.
DumpLines(op, result) ==
    IF result # nullopt /\ options.jsonDumpFP # nullopt
    THEN <<[operation |-> op, result |-> result[1]]>>
    ELSE <<>>

\* Variant of the test call that skips a task whose result is absent.
TestCalls_OnlyPresent(op, result) ==
    IF options.disableTests = FALSE /\ result # nullopt
    THEN <<[op |-> op, result |-> result]>>
    ELSE <<>>

\* if ( options.disableTests == false ) tests::test(op, result.second);
TestCalls(op, result) ==
    IF options.disableTests = FALSE
    THEN <<[op |-> op, result |-> result]>>
    ELSE <<>>

\* One iteration of the task loop: modifier mutation, callModule, the JSON record,
\* tests::test and postprocess.
ExecTask ==
    /\ pc = "exec"
    /\ idx < Len(operations)
    /\ LET i == idx + 1
           module == operations[i].module
           op == DispatchOp(operations, i)
       IN \E ret \in ModuleOutcomes(module, op),
             prng \in (IF Family(executor) = "DH_GenerateKeyPair" THEN 0..3 ELSE {0}),
             dec \in (IF Family(executor) = "SymmetricEncrypt"
                      THEN DecryptReturns(op) ELSE {nullopt}) :
            LET r == callModule(module, op, ret)
                e == postprocess(module, op, r.result, prng, dec)
            IN
              /\ operations' = [operations EXCEPT ![i].op = op]
              /\ results' = Append(results, [module |-> module, result |-> r.result])
              /\ dispatched' = Append(dispatched, [module |-> module, op |-> op])
              /\ calls' = (IF r.invoked
                           THEN Append(calls, Invocation(module, Family(executor), op, ret))
                           ELSE calls) \o e.calls
              /\ jsonDump' = jsonDump \o DumpLines(op, r.result)
              /\ tested' = tested \o TestCalls(op, r.result)
              /\ probed' = probed \o e.probed
              /\ pools' = pools \cup e.pools
              /\ replay' = IF r.invoked THEN Remembered(module, op, ret) ELSE replay
              /\ IF e.abort # nullopt
                 THEN /\ abortReason' = e.abort
                      /\ pc' = "aborted"
                      /\ idx' = idx
                 ELSE /\ abortReason' = abortReason
                      /\ idx' = idx + 1
                      /\ pc' = IF idx' = Len(operations) THEN "compare" ELSE "exec"
    /\ UNCHANGED <<config, drawn, nDrawn, lastDraw>>

(***************************************************************************)
(* compare.                                                                *)
(***************************************************************************)
\* Variant of filter that keeps absent results.
filter_KeepAll(res) == res

\* filter(results): the entries whose result is not std::nullopt.
filter(res) == SelectSeq(res, LAMBDA r : r.result # nullopt)

\* Variant of dontCompare that never exempts an operation.
dontCompare_Never(op) == FALSE

\* dontCompare(operation) of the executor's family.
dontCompare(op) ==
    CASE Family(executor) = "BignumCalc" -> op.calcOp = "Rand()"
      [] Family(executor) = "ECDSA_Sign" ->
            op.curveType # "ed25519" /\ op.curveType # "ed448" /\ op.UseRandomNonce
      [] Family(executor) \in {"SymmetricEncrypt", "SymmetricDecrypt", "CMAC", "HMAC"} ->
            op.cipherType = "DES_EDE3_WRAP"
      [] OTHER -> FALSE

\* Variant in which BLS_GenerateKeyPair specializes compare like the other generators.
CompareOverridden_WithBLS ==
    Family(executor) \in {"ECC_GenerateKeyPair", "DH_GenerateKeyPair", "BLS_GenerateKeyPair"}

\* Variant in which no family specializes compare.
CompareOverridden_None == FALSE

\* The families whose compare is specialized to do nothing.
CompareOverridden == Family(executor) \in {"ECC_GenerateKeyPair", "DH_GenerateKeyPair"}

\* Variant of the compare loop that only looks at the first pair.
AdjacentDifference_FirstPair(filtered) ==
    Len(filtered) >= 2 /\ filtered[1].result # filtered[2].result

\* The loop of the default compare: TRUE when *prev == *cur fails for some adjacent
\* pair (prev and cur are the optionals of the filtered entries).
AdjacentDifference(filtered) ==
    \E i \in 2..Len(filtered) : filtered[i - 1].result # filtered[i].result

\* compare(operations, results): the reason it aborts with, or nullopt.
compare(ops, res) ==
    IF CompareOverridden THEN nullopt
    ELSE IF Len(res) < 2 THEN nullopt
    ELSE LET filtered == filter(res) IN
      IF Len(filtered) < 2 THEN nullopt
      ELSE IF dontCompare(ops[1].op) = TRUE THEN nullopt
      ELSE IF AdjacentDifference(filtered) THEN Some("difference")
      ELSE nullopt

\* if ( options.noCompare == false ) compare(operations, results, data, size);
Compare ==
    /\ pc = "compare"
    /\ LET reason == IF options.noCompare = FALSE THEN compare(operations, results) ELSE nullopt IN
         IF reason # nullopt
         THEN pc' = "aborted" /\ abortReason' = reason
         ELSE pc' = "done" /\ UNCHANGED abortReason
    /\ UNCHANGED <<config, operations, results, idx, dispatched, calls, drawn, nDrawn, sinks,
                   replay, lastDraw>>

(***************************************************************************)
(* SpecPost: callModule followed by postprocess on one (module, operation) *)
(* pair, for every family, the module free to fail or to return a result   *)
(* of any length around config::kMaxBignumSize.                            *)
(***************************************************************************)
\* The operations callModule and postprocess are applied to, per family.
PostOps(f) ==
    CASE f = "SymmetricEncrypt" ->
            [modifier : {NoModifier, <<7>>},
             cipherType : {"AES_128_GCM", "AES_128_OCB", "AES_192_OCB"},
             cleartext : {<<>>, <<1>>}, tagSize : {nullopt, Some(16)},
             aad : {nullopt, Some(<<2>>)}]
      [] f \in {"ECC_PrivateToPublic", "BLS_PrivateToPublic", "BLS_Sign"} ->
            {o \in OpsOf(f) : o.priv \in {Bignum(0, 0), Bignum(0, 1)}}
      [] f = "ECDSA_Sign" ->
            {o \in OpsOf(f) : o.priv \in {Bignum(0, 0), Bignum(0, 1)} /\ o.digestType = "SHA256"}
      [] f = "DH_GenerateKeyPair" ->
            [modifier : {NoModifier}, prime : {Bignum(0, 1), Bignum(0, kMaxBignumSize + 1)},
             base : {Bignum(0, 1)}]
      [] f = "DH_Derive" ->
            [modifier : {NoModifier}, prime : {Bignum(0, 1), Bignum(0, kMaxBignumSize + 1)},
             base : {Bignum(0, 1)}, pub : {Bignum(0, 1)}, priv : {Bignum(0, 1)}]
      [] f = "BignumCalc" ->
            [modifier : {NoModifier}, calcOp : {"Add(A,B)", "Exp(A,B)"},
             bn0 : {Bignum(0, 1), Bignum(0, 6)}, bn1 : {Bignum(0, 1)}, bn2 : {Bignum(0, 1)},
             bn3 : {Bignum(0, 1)}, modulo : {nullopt}]
      [] f = "BLS_IsG1OnCurve" ->
            [modifier : {NoModifier}, g1 : {Bignum(0, 1)} \X {Bignum(0, 1)}]
      [] f = "BLS_IsG2OnCurve" ->
            [modifier : {NoModifier},
             g2 : {Bignum(0, 1)} \X {Bignum(0, 1)} \X {Bignum(0, 1)} \X {Bignum(0, 1)}]
      [] OTHER -> OpsOf(f)

\* What a module's Op method may return: nullopt, or a result whose byte region or
\* decimal strings have length 0, 1, kMaxBignumSize or kMaxBignumSize + 1.
PostReturns(f) ==
    {nullopt} \cup {Some(Result(f, v, n)) :
                      v \in {1, 2}, n \in {0, 1, kMaxBignumSize, kMaxBignumSize + 1}}

\* Options with some curves disabled, and noDecrypt either way for SymmetricEncrypt.
PostOptions(f) ==
    {[DefaultOptions EXCEPT !.curves = v, !.noDecrypt = d] :
        v \in {Curves, {"secp256k1"}},
        d \in (IF f = "SymmetricEncrypt" THEN BOOLEAN ELSE {FALSE})}

InitPost ==
    /\ executor \in Families
    /\ options \in PostOptions(executor)
    /\ data \in PostOps(executor)
    /\ parentDs = [modifiers |-> {NoModifier}, moduleIDs |-> ModuleIDs, bools |-> BOOLEAN]
    /\ backend = [id \in ModuleIDs |-> PostReturns(executor)]
    /\ \E m \in {1, 2} : operations = <<[module |-> m, op |-> data]>>
    /\ results = <<>>
    /\ idx = 0
    /\ pc = "call"
    /\ abortReason = nullopt
    /\ dispatched = <<>>
    /\ calls = <<>>
    /\ drawn = operations
    /\ nDrawn = 1
    /\ jsonDump = <<>>
    /\ tested = <<>>
    /\ probed = <<>>
    /\ pools = {}
    /\ replay = NoReplay
    /\ lastDraw = nullopt

\* postprocess(module, op, result) applied to what callModule returned.
PostStep ==
    /\ pc = "called"
    /\ LET task == dispatched[1]
           result == results[1].result
       IN \E prng \in (IF Family(executor) = "DH_GenerateKeyPair" THEN 0..3 ELSE {0}),
             dec \in (IF Family(executor) = "SymmetricEncrypt"
                      THEN DecryptReturns(task.op) ELSE {nullopt}) :
            LET e == postprocess(task.module, task.op, result, prng, dec) IN
              /\ calls' = calls \o e.calls
              /\ probed' = probed \o e.probed
              /\ pools' = pools \cup e.pools
              /\ abortReason' = e.abort
              /\ pc' = IF e.abort # nullopt THEN "aborted" ELSE "posted"
    /\ UNCHANGED <<config, operations, results, idx, dispatched, drawn, nDrawn,
                   jsonDump, tested, replay, lastDraw>>

NextPost == CallStep \/ PostStep

SpecPost == InitPost /\ [][NextPost]_vars

(***************************************************************************)
(* Spec: the initial states.                                               *)
(***************************************************************************)
SmallBn == Bignum(0, 1)

\* The operations the fuzzer buffer of a Run decodes to, per executor.
RunData(e) ==
    CASE e = "Digest" -> [modifier : {NoModifier}, digestType : {"SHA256"}]
      [] e = "SymmetricEncrypt" ->
            [modifier : {NoModifier}, cipherType : {"AES_128_GCM", "DES_EDE3_WRAP"},
             cleartext : {<<1>>}, tagSize : {Some(16)}, aad : {Some(<<2>>)}]
      [] e \in {"ECC_GenerateKeyPair", "BLS_GenerateKeyPair"} ->
            [modifier : {NoModifier}, curveType : {"BLS12_381"}]
      [] e = "DH_GenerateKeyPair" ->
            [modifier : {NoModifier}, prime : {SmallBn}, base : {SmallBn}]
      [] e = "ECDSA_Sign" ->
            [modifier : {NoModifier}, curveType : {"secp256k1", "ed25519", "ed448"},
             digestType : {"SHA256"}, priv : {SmallBn}, UseRandomNonce : BOOLEAN]
      [] Family(e) = "BignumCalc" ->
            [modifier : {NoModifier}, calcOp : {"Add(A,B)", "Rand()"},
             bn0 : {SmallBn}, bn1 : {SmallBn}, bn2 : {SmallBn}, bn3 : {SmallBn},
             modulo : {nullopt, Some(OtherModulo)}]

CompareExecutors ==
    {"Digest", "SymmetricEncrypt", "ECC_GenerateKeyPair", "BLS_GenerateKeyPair",
     "DH_GenerateKeyPair", "ECDSA_Sign", "BignumCalc"} \cup ModularExecutors

\* Scheduling: every draw the parent Datasource can make, modules that agree.
InitSchedule ==
    /\ executor = "Digest"
    /\ data \in RunData(executor)
    /\ options \in {o \in {[DefaultOptions EXCEPT !.disableModules = d, !.forceModule = f,
                                                  !.minModules = n, !.jsonDumpFP = Some("fp")] :
                              d \in {{}, {NumModules}},
                              f \in {nullopt, Some(2), Some(NumModules), Some(UnknownModuleID)},
                              n \in {1, NumModules + 1}} :
                       /\ o.forceModule = Some(NumModules) => o.disableModules = {NumModules}
                       /\ o.forceModule = Some(UnknownModuleID) => o.disableModules = {}}
    /\ parentDs = [modifiers |-> {<<>>, <<255>>},
                   moduleIDs |-> {1, 2, NumModules, UnknownModuleID}, bools |-> BOOLEAN]
    /\ backend = [id \in ModuleIDs |-> {Some(Result(executor, 1, 1))}]
    /\ replay = NoReplay
    /\ lastDraw = nullopt

\* The options of the comparison Runs: noCompare either way; the dump sink and
\* disableTests either way for Digest; noDecrypt either way for SymmetricEncrypt.
CompareOptions(e) ==
    {[DefaultOptions EXCEPT !.noCompare = c, !.disableTests = t, !.jsonDumpFP = j,
                            !.noDecrypt = d, !.forceModule = f] :
        c \in BOOLEAN,
        f \in (IF e = "Digest" THEN {nullopt, Some(2)} ELSE {nullopt}),
        t \in (IF e = "Digest" THEN BOOLEAN ELSE {FALSE}),
        j \in (IF e = "Digest" THEN {nullopt, Some("fp")} ELSE {nullopt}),
        d \in (IF e = "SymmetricEncrypt" THEN BOOLEAN ELSE {FALSE})}

\* Comparison: every executor, one draw expanded to every module, modules free to
\* fail or to disagree.
InitCompare ==
    /\ executor \in CompareExecutors
    /\ data \in RunData(executor)
    /\ options \in CompareOptions(executor)
    /\ parentDs = [modifiers |-> {NoModifier}, moduleIDs |-> {1}, bools |-> {FALSE}]
    /\ backend = [id \in ModuleIDs |-> ModuleReturns(Family(executor))]
    /\ replay = NoReplay
    /\ lastDraw = nullopt

\* Two Runs on the same inputs: deterministic modules that may fail, and families
\* whose postprocess feeds the pools (BignumCalc) and consults PRNG() (DH_GenerateKeyPair).
InitReplay ==
    /\ executor \in {"BignumCalc", "DH_GenerateKeyPair"}
    /\ data \in {o \in RunData(executor) :
                   executor = "BignumCalc" => o.calcOp = "Add(A,B)" /\ o.modulo = nullopt}
    /\ options = DefaultOptions
    /\ parentDs = [modifiers |-> {NoModifier}, moduleIDs |-> {1, 2}, bools |-> BOOLEAN]
    /\ backend = [id \in ModuleIDs |-> {nullopt, Some(Result(Family(executor), 1, 1))}]
    /\ replay = [NoReplay EXCEPT !.on = TRUE]
    /\ lastDraw = nullopt

\* The first Run has returned; Run is called again with the same arguments.  The
\* pools keep their entries.
Rerun ==
    /\ replay.on
    /\ replay.run = 1
    /\ pc \in {"done", "returned"}
    /\ replay' = [replay EXCEPT !.run = 2,
                                !.first = Some([operations |-> operations,
                                                results |-> results, pc |-> pc])]
    /\ operations' = <<>>
    /\ results' = <<>>
    /\ idx' = 0
    /\ pc' = "draw"
    /\ dispatched' = <<>>
    /\ calls' = <<>>
    /\ drawn' = <<>>
    /\ nDrawn' = 0
    /\ jsonDump' = <<>>
    /\ tested' = <<>>
    /\ probed' = <<>>
    /\ UNCHANGED <<config, abortReason, pools, lastDraw>>

\* ECDH_Derive: one draw, every substitution, with and without the curves filter.
InitSubst ==
    /\ executor = "ECDH_Derive"
    /\ data = [modifier |-> NoModifier, curveType |-> "secp256k1", pub1 |-> 1, pub2 |-> 2]
    /\ options \in {DefaultOptions, [DefaultOptions EXCEPT !.curves = {"ed25519"}]}
    /\ parentDs = [modifiers |-> {<<255>>}, moduleIDs |-> {1}, bools |-> {FALSE}]
    /\ backend = [id \in ModuleIDs |-> {Some(Result(executor, 1, 1))}]
    /\ replay = NoReplay
    /\ lastDraw = nullopt

Init ==
    /\ InitSchedule \/ InitCompare \/ InitReplay \/ InitSubst
    /\ operations = <<>>
    /\ results = <<>>
    /\ idx = 0
    /\ pc = "draw"
    /\ abortReason = nullopt
    /\ dispatched = <<>>
    /\ calls = <<>>
    /\ drawn = <<>>
    /\ nDrawn = 0
    /\ jsonDump = <<>>
    /\ tested = <<>>
    /\ probed = <<>>
    /\ pools = {}

Next == Draw \/ Expand \/ MinModulesGate \/ ExecTask \/ Compare \/ Rerun

Spec == Init /\ [][Next]_vars

(***************************************************************************)
(* Properties of Run (Spec).                                               *)
(***************************************************************************)
Present(res) == {k \in 1..Len(res) : res[k].result # nullopt}

PresentUnequal(res) ==
    \E j, k \in Present(res) : res[j].result[1] # res[k].result[1]

DifferenceAbort == abortReason = Some("difference")

\* The Run got as far as the call of compare.
ComparedRun == pc = "done" \/ DifferenceAbort

\* C1 as stated: with noCompare false, the default comparator and
\* dontCompare(tasks[0].op) false, every Run that has ended and whose result set
\* holds two unequal present results ended in an abort with reason "difference",
\* and no Run whose present results are all equal did.
C1_EveryRunEndsInDifference ==
    (/\ pc \in {"done", "aborted"}
     /\ options.noCompare = FALSE
     /\ Family(executor) \notin {"ECC_GenerateKeyPair", "DH_GenerateKeyPair"}
     /\ ~dontCompare(operations[1].op))
    => (DifferenceAbort <=> PresentUnequal(results))

\* C1 (amended): with noCompare false, the default comparator and
\* dontCompare(tasks[0].op) false, a Run that reaches compare aborts with reason
\* "difference" exactly when two present results of its result set, adjacent or
\* not, are unequal.
C1_DifferenceIffUnequal ==
    (/\ ComparedRun
     /\ options.noCompare = FALSE
     /\ Family(executor) \notin {"ECC_GenerateKeyPair", "DH_GenerateKeyPair"}
     /\ ~dontCompare(operations[1].op))
    => (DifferenceAbort <=> PresentUnequal(results))

\* An abort on two unequal results that an absent result separates.
C1_Witness ==
    /\ pc = "aborted"
    /\ DifferenceAbort
    /\ Len(results) >= 3
    /\ results[1].result # nullopt
    /\ results[2].result = nullopt
    /\ results[3].result # nullopt
    /\ results[1].result # results[3].result

\* C2: absent results are never compared: a "difference" abort takes two present
\* results, so with fewer than two present results the comparator returns without
\* abort, whatever was gated or failed.
C2_AbsentNeverCompared ==
    DifferenceAbort => Cardinality(Present(results)) >= 2

\* A Run that ends normally with one present result among gated and failed tasks.
C2_Witness ==
    /\ pc = "done"
    /\ options.noCompare = FALSE
    /\ executor \in ModularExecutors
    /\ data.calcOp = "Add(A,B)"
    /\ Cardinality(Present(results)) = 1
    /\ Len(results) >= 3
    /\ \E k \in 1..Len(results) : results[k].module = 1
    /\ Len(calls) >= 2

\* The operations of the no-compare families, read from the fuzzer buffer.
NoCompareRun ==
    \/ executor \in {"ECC_GenerateKeyPair", "DH_GenerateKeyPair"}
    \/ Family(executor) = "BignumCalc" /\ data.calcOp = "Rand()"
    \/ /\ executor = "ECDSA_Sign"
       /\ data.UseRandomNonce
       /\ data.curveType \notin {"ed25519", "ed448"}

\* C3: for ECC_GenerateKeyPair, DH_GenerateKeyPair, BignumCalc Rand() and ECDSA_Sign
\* with a random nonce on a curve other than ed25519/ed448, no Run aborts with
\* reason "difference".
C3_NoCompareFamilies == NoCompareRun => ~DifferenceAbort

\* Such a Run ending normally although two modules returned unequal results.
C3_Witness ==
    /\ pc = "done"
    /\ options.noCompare = FALSE
    /\ executor = "ECDSA_Sign"
    /\ NoCompareRun
    /\ \E j, k \in Present(results) :
          results[j].module # results[k].module /\ results[j].result # results[k].result

\* C4: once Run is past the expansion, every registered module that is not
\* explicitly disabled is the module of some task, and every task the expansion
\* appended carries the operation of tasks[0].
C4_FanOut ==
    nDrawn > 0 =>
      /\ \A id \in ModuleIDs :
            id \notin options.disableModules =>
               \E k \in 1..Len(operations) : operations[k].module = id
      /\ \A k \in (nDrawn + 1)..Len(operations) : operations[k].op = operations[1].op

\* Fan-out tasks executed next to a disabled module and repeated draws.
C4_Witness ==
    /\ pc = "compare"
    /\ options.disableModules # {}
    /\ nDrawn >= 2
    /\ Len(operations) > nDrawn
    /\ operations[1].op.modifier # NoModifier

\* C5: two consecutive tasks on the same module drawn with equal modifiers are
\* dispatched to callModule with unequal modifiers, for every length of run.
C5_ConsecutiveModifiersDiffer ==
    \A k \in 2..Len(dispatched) :
       (drawn[k].module = drawn[k - 1].module
          /\ drawn[k].op.modifier = drawn[k - 1].op.modifier)
       => dispatched[k].op.modifier # dispatched[k - 1].op.modifier

\* The fixed modulus of each modular variant.
FixedModulus ==
    CASE executor = "BignumCalc_Mod_BLS12_381_R" ->
            "52435875175126190479447740508185965837690552500527637822603658699938581184513"
      [] executor = "BignumCalc_Mod_BLS12_381_P" ->
            "4002409555221667393417789825735904156556882819939007885332058136124031650490837864442687629129015664037894272559787"
      [] executor = "BignumCalc_Mod_2Exp256" ->
            "115792089237316195423570985008687907853269984665640564039457584007913129639936"

\* C10: every operation a modular-variant executor hands to callModule, drawn or
\* fan-out, has op.modulo equal to the variant's modulus, whatever the operation
\* carried when constructed.
C10_ModulusStamped ==
    executor \in ModularExecutors =>
       \A k \in 1..Len(dispatched) : dispatched[k].op.modulo = Some(FixedModulus)

\* A fan-out task of a modular variant dispatched, the buffer carrying another modulo.
C10_Witness ==
    /\ executor \in ModularExecutors
    /\ data.modulo = Some(OtherModulo)
    /\ nDrawn >= 1
    /\ Len(dispatched) > nDrawn

(***************************************************************************)
(* Properties of callModule (SpecCall).                                    *)
(***************************************************************************)
Called == pc = "called"
NotInvoked == results[1].result = nullopt /\ calls = <<>>
InvokedOnce ==
    /\ Len(calls) = 1
    /\ calls[1].module = operations[1].module
    /\ calls[1].op = operations[1].op
    /\ results[1].result = calls[1].ret

Carries(op, field) == field \in DOMAIN op

\* Some algorithm id the operation carries is not enabled in its option filter
\* (the cipher an HMAC carries holds its key: its governing id is the digest).
AlgorithmDisabled(op) ==
    \/ Carries(op, "digestType") /\ op.digestType \notin options.digests
    \/ Carries(op, "cipherType") /\ executor # "HMAC" /\ op.cipherType \notin options.ciphers
    \/ Carries(op, "curveType") /\ op.curveType \notin options.curves
    \/ Carries(op, "calcOp") /\ op.calcOp \notin options.calcOps
    \/ Carries(op, "mechType") /\ op.mechType \notin (options.digests \cup options.ciphers)

\* C6: for every family, an operation whose digest, cipher, curve or calc-op is not
\* enabled in the corresponding option filter makes callModule return nullopt
\* without invoking the module.
C6_GatedWhenDisabled ==
    (Called /\ AlgorithmDisabled(data)) => NotInvoked

PrivKeyFamilies == {"ECC_PrivateToPublic", "ECDSA_Sign", "BLS_PrivateToPublic", "BLS_Sign"}

\* C7: for the private-key families callModule returns nullopt without invoking
\* the module when the trimmed private key has length 0 or more than 4096; for a
\* length in [1, 4096] and enabled algorithm ids the module is invoked once and
\* its result is returned unchanged.
C7_PrivateKeyCap ==
    (Called /\ executor \in PrivKeyFamilies) =>
       /\ (data.priv.digits = 0 \/ data.priv.digits > 4096) => NotInvoked
       /\ (data.priv.digits \in 1..4096 /\ ~AlgorithmDisabled(data)) => InvokedOnce

\* A key of 4096 significant digits behind a leading zero is passed to the module.
C7_Witness ==
    /\ Called
    /\ executor = "BLS_Sign"
    /\ data.priv = Bignum(1, 4096)
    /\ InvokedOnce
    /\ results[1].result # nullopt

\* The capped inputs of an operation, per family.
CappedInputs(f, op) ==
    CASE f = "BignumCalc" -> {op.bn0, op.bn1, op.bn2, op.bn3}
      [] f = "DH_Derive" -> {op.prime, op.base, op.pub, op.priv}
      [] f = "DH_GenerateKeyPair" -> {op.prime, op.base}
      [] f = "BLS_IsG1OnCurve" -> {op.g1[1], op.g1[2]}
      [] f = "BLS_IsG2OnCurve" -> {op.g2[1], op.g2[2], op.g2[3], op.g2[4]}
      [] OTHER -> {}

\* C8: callModule returns nullopt without invoking the module whenever a capped
\* input of BignumCalc, DH_Derive, DH_GenerateKeyPair, BLS_IsG1OnCurve or
\* BLS_IsG2OnCurve is longer than kMaxBignumSize.
C8_BignumSizeCap ==
    (Called /\ \E bn \in CappedInputs(executor, data) : bn.zeros + bn.digits > kMaxBignumSize)
    => NotInvoked

\* DH_Derive gated on its private key alone.
C8_Witness ==
    /\ Called
    /\ executor = "DH_Derive"
    /\ data.prime.digits = kMaxBignumSize
    /\ data.base.digits = kMaxBignumSize
    /\ data.pub.digits = kMaxBignumSize
    /\ data.priv.digits = kMaxBignumSize + 1
    /\ NotInvoked

\* The per-operation cap of BignumCalc is exceeded.
OverCalcOpCap(op) ==
    \/ op.calcOp = "SetBit(A,B)" /\ op.bn1.digits > 4
    \/ op.calcOp = "Exp(A,B)" /\ (op.bn0.digits > 5 \/ op.bn1.digits > 2)
    \/ op.calcOp = "ModLShift(A,B,C)" /\ op.bn1.digits > 4
    \/ op.calcOp = "Exp2(A)" /\ op.bn0.digits > 4

\* C9: ExecutorBignumCalc::callModule returns nullopt with no backend invocation
\* when the per-operation cap of SetBit, Exp, ModLShift or Exp2 is exceeded; at
\* the boundary sizes, the other gates passing, the backend is invoked.
C9_CalcOpCaps ==
    (Called /\ executor = "BignumCalc") =>
       /\ OverCalcOpCap(data) => NotInvoked
       /\ (/\ ~OverCalcOpCap(data)
           /\ data.calcOp \in options.calcOps
           /\ \A bn \in {data.bn0, data.bn1, data.bn2, data.bn3} : bn.digits <= kMaxBignumSize
           /\ (data.modulo = nullopt \/ operations[1].module # 1))
          => InvokedOnce

\* Exp(A,B) with |bn0| = 5 and |bn1| = 2 reaches the backend.
C9_Witness ==
    /\ Called
    /\ executor = "BignumCalc"
    /\ data.calcOp = "Exp(A,B)"
    /\ data.bn0 = Bignum(0, 5)
    /\ data.bn1 = Bignum(0, 2)
    /\ InvokedOnce

(***************************************************************************)
(* Modular variants, postprocess and the task loop.                        *)
(***************************************************************************)
Supports(id) == modules[id].SupportsModularBignumCalc

\* C11: in a Run of a modular-variant executor a module without
\* SupportsModularBignumCalc is never invoked and its result is absent, and the
\* Run aborts with reason "difference" only when two modules that support modular
\* calculation returned unequal present results.
C11_UnsupportedModuleNotCompared ==
    executor \in ModularExecutors =>
       /\ \A k \in 1..Len(calls) : Supports(calls[k].module)
       /\ \A k \in 1..Len(results) :
             ~Supports(results[k].module) => results[k].result = nullopt
       /\ DifferenceAbort =>
             \E j, k \in Present(results) :
                /\ Supports(results[j].module)
                /\ Supports(results[k].module)
                /\ results[j].result # results[k].result

\* A modular Run ends normally: the unsupporting module was drawn and gated, the
\* supporting modules were invoked and agree.
C11_Witness ==
    /\ pc = "done"
    /\ executor \in ModularExecutors
    /\ options.noCompare = FALSE
    /\ data.calcOp = "Add(A,B)"
    /\ results[1].module = 1
    /\ results[1].result = nullopt
    /\ Len(calls) = NumModules - 1
    /\ \A k \in 2..Len(results) : results[k].result = Some(Result("BignumCalc", 1, 1))

\* Nothing was executed: no callModule, test, postprocess effect, dump line or abort.
NothingExecuted ==
    /\ dispatched = <<>>
    /\ calls = <<>>
    /\ results = <<>>
    /\ tested = <<>>
    /\ probed = <<>>
    /\ jsonDump = <<>>
    /\ pools = {}
    /\ abortReason = nullopt

\* C16: a Run whose task list after the fan-out has fewer than options.minModules
\* entries returns with nothing executed and never reaches compare; a Run whose
\* list has at least minModules entries enters the task loop and, when the loop
\* is over, has executed every task of the list.
C16_MinModulesGate ==
    /\ (pc = "returned" /\ nDrawn > 0) =>
          Len(operations) < options.minModules /\ NothingExecuted
    /\ pc \in {"exec", "compare", "done", "aborted"} =>
          Len(operations) >= options.minModules
    /\ (pc \in {"compare", "done"} \/ DifferenceAbort) =>
          /\ Len(dispatched) = Len(operations)
          /\ Len(results) = Len(operations)
          /\ options.disableTests = FALSE => Len(tested) = Len(operations)

\* A Run turned away with one task less than minModules, the dump sink being set.
C16_Witness ==
    /\ pc = "returned"
    /\ nDrawn > 0
    /\ Len(operations) = options.minModules - 1
    /\ options.jsonDumpFP # nullopt
    /\ options.disableTests = FALSE

\* The invocations of the family's own Op method, in the order they were made.
FamilyCalls == SelectSeq(calls, LAMBDA c : c.method = Family(executor))

\* cs is the sequence of invocations made by tasks i.. in task order: an invoked task
\* contributes the invocation of its module on its dispatched operation, whose return
\* value is its result; a task that contributes none has an absent result.
RECURSIVE ResultsOfCalls(_, _)
ResultsOfCalls(cs, i) ==
    IF i > Len(results) THEN cs = <<>>
    ELSE \/ /\ cs # <<>>
            /\ Head(cs).module = results[i].module
            /\ Head(cs).op = dispatched[i].op
            /\ Head(cs).ret = results[i].result
            /\ ResultsOfCalls(Tail(cs), i + 1)
         \/ /\ results[i].result = nullopt
            /\ ResultsOfCalls(cs, i + 1)

\* C17: when compare is invoked the result set has one entry per task, entry i has
\* the module of tasks[i] and the result of executing tasks[i]; the drawn tasks come
\* first, then the fan-out tasks by ascending module id on modules no drawn task
\* has; the tasks are executed one after the other in list order.
C17_ResultOrder ==
    /\ pc \in {"exec", "compare", "done", "aborted"} =>
          /\ Len(results) = Len(dispatched)
          /\ Len(results) \in {idx, idx + 1}
          /\ Len(results) = idx + 1 => pc = "aborted" /\ ~DifferenceAbort
          /\ \A i \in 1..Len(results) :
                /\ results[i].module = operations[i].module
                /\ dispatched[i] = operations[i]
          /\ ResultsOfCalls(FamilyCalls, 1)
          /\ Len(operations) = Len(drawn)
          /\ \A i \in 1..Len(operations) : operations[i].module = drawn[i].module
          /\ \A k \in (nDrawn + 1)..Len(operations) :
                /\ \A j \in 1..nDrawn : operations[j].module # operations[k].module
                /\ k < Len(operations) => operations[k].module < operations[k + 1].module
    /\ (pc \in {"compare", "done"} \/ DifferenceAbort) => Len(results) = Len(operations)

\* compare is reached with two drawn tasks on a module of higher id than the two
\* fan-out tasks that follow them.
C17_Witness ==
    /\ pc = "compare"
    /\ nDrawn >= 2
    /\ Len(operations) = nDrawn + 2
    /\ operations[1].module > operations[nDrawn + 1].module
    /\ Len(FamilyCalls) = Len(operations)

\* C19: task i is dispatched with a modifier other than the one it was drawn with
\* only if i >= 1, tasks[i-1] is on the same module and the modifier of tasks[i]
\* equals the modifier tasks[i-1] has when task i is reached; task 0 and every
\* other task are dispatched with the modifier they were drawn with.
C19_MutationOnlyOnEqualModifier ==
    \A k \in 1..Len(dispatched) :
       dispatched[k].op.modifier # drawn[k].op.modifier =>
          /\ k > 1
          /\ drawn[k].module = drawn[k - 1].module
          /\ drawn[k].op.modifier = dispatched[k - 1].op.modifier

\* C20 as stated: the per-operation test is invoked only for a task whose result is
\* present and only with options.disableTests false, and a JSON line is written
\* only for a present result with the dump sink set.
C20_TestAndDumpOnlyWithResult ==
    /\ \A k \in 1..Len(tested) :
          tested[k].result # nullopt /\ options.disableTests = FALSE
    /\ Len(jsonDump) =
          IF options.jsonDumpFP # nullopt THEN Cardinality(Present(results)) ELSE 0

\* C20 (amended): with options.disableTests false the per-operation test is invoked
\* once for every executed task, on the task's operation and its result, present or
\* absent, and with disableTests true it is never invoked; a JSON line is written
\* exactly for the tasks whose result is present while the dump sink is set, and
\* holds the task's operation and result.
C20_TestEveryTaskDumpPresent ==
    /\ Len(tested) = IF options.disableTests = FALSE THEN Len(results) ELSE 0
    /\ \A k \in 1..Len(tested) :
          tested[k] = [op |-> dispatched[k].op, result |-> results[k].result]
    /\ Len(jsonDump) =
          IF options.jsonDumpFP # nullopt THEN Cardinality(Present(results)) ELSE 0
    /\ \A j \in 1..Len(jsonDump) :
          \E k \in Present(results) :
             jsonDump[j] = [operation |-> dispatched[k].op, result |-> results[k].result[1]]

\* A Run with tests enabled and the dump sink set in which a module failed: the
\* test saw the absent result, the dump did not.
C20_Witness ==
    /\ pc = "done"
    /\ options.disableTests = FALSE
    /\ options.jsonDumpFP # nullopt
    /\ results[1].result = nullopt
    /\ tested[1].result = nullopt
    /\ Len(tested) = Len(results)
    /\ Len(jsonDump) = Len(results) - 1
    /\ Len(jsonDump) >= 2

\* The families whose result has a flat byte region.
FlatRegionFamilies ==
    {"Digest", "HMAC", "CMAC", "SymmetricEncrypt", "SymmetricDecrypt", "BignumCalc",
     "KDF_SCRYPT", "KDF_HKDF", "KDF_PBKDF", "KDF_PBKDF1", "KDF_PBKDF2", "KDF_ARGON2",
     "KDF_SSH", "KDF_TLS1_PRF", "KDF_X963", "KDF_BCRYPT", "KDF_SP_800_108"}

\* The sanitizer probe ran over a region of the result of task k.
Probed(k, part) ==
    \E j \in 1..Len(probed) :
       /\ probed[j].module = results[k].module
       /\ probed[j].part = part
       /\ probed[j].val = results[k].result[1].val
       /\ probed[j].size = results[k].result[1].size

\* C15: in a Run of a family whose result has a flat byte region, whatever the
\* options, when the task loop is over and compare is about to examine the results
\* every present result has been passed to the sanitizer probe (ciphertext and tag
\* for SymmetricEncrypt).
C15_ProbedBeforeCompare ==
    (pc = "compare" /\ Family(executor) \in FlatRegionFamilies) =>
       \A k \in Present(results) :
          IF Family(executor) = "SymmetricEncrypt"
          THEN /\ Probed(k, "ciphertext")
               /\ results[k].result[1].tag # nullopt => Probed(k, "tag")
          ELSE Probed(k, "result")

(***************************************************************************)
(* Properties of postprocess (SpecPost).                                   *)
(***************************************************************************)
Posted == pc = "posted"
PostResult == results[1].result
BignumEntries == {e \in pools : e.pool = "Pool_Bignum"}

\* The families whose postprocess offers strings of the result to Pool_Bignum.
BignumPoolFamilies ==
    {"ECC_PrivateToPublic", "ECDSA_Sign", "BignumCalc", "BLS_Sign", "BLS_HashToG1",
     "BLS_HashToG2", "BLS_GenerateKeyPair", "BLS_Decompress_G1", "BLS_Compress_G1",
     "BLS_Decompress_G2", "BLS_Compress_G2"}

\* C12: for every family and every backend result, Pool_Bignum never receives a
\* string longer than kMaxBignumSize, and a string of exactly kMaxBignumSize
\* characters is admitted.
C12_PoolBignumCap ==
    /\ \A e \in BignumEntries : e.entry[3] <= kMaxBignumSize
    /\ (/\ Posted
        /\ executor \in BignumPoolFamilies
        /\ PostResult # nullopt
        /\ PostResult[1].size = kMaxBignumSize)
       => \E e \in BignumEntries :
             e.entry[2] = PostResult[1].val /\ e.entry[3] = kMaxBignumSize

\* A BLS signature whose strings are one character too long enters the curve pools
\* and not Pool_Bignum.
C12_Witness ==
    /\ Posted
    /\ executor = "BLS_Sign"
    /\ PostResult # nullopt
    /\ PostResult[1].size = kMaxBignumSize + 1
    /\ \E e \in pools : e.pool = "Pool_CurveBLSSignature"
    /\ BignumEntries = {}

\* C13: for every family, a postprocess call whose result is absent, the task
\* having been gated or the module having failed, leaves every pool unchanged.
C13_NoPoolInsertWithoutResult ==
    (pc \in {"posted", "aborted"} /\ PostResult = nullopt) => pools = {}

\* postprocess ran on a gated ECC_PrivateToPublic task and on nothing else.
C13_Witness ==
    /\ Posted
    /\ executor = "ECC_PrivateToPublic"
    /\ data.priv = Bignum(0, 0)
    /\ PostResult = nullopt
    /\ calls = <<>>
    /\ pools = {}

\* The invocations of OpSymmetricDecrypt made by postprocess.
DecryptCalls == SelectSeq(calls, LAMBDA c : c.method = "SymmetricDecrypt")
CannotDecrypt == abortReason = Some("cannot decrypt ciphertext")

\* The self-decrypt check applies to the task: noDecrypt false, a non-empty
\* cleartext, a present result with a non-empty ciphertext, and not one of the
\* OpenSSL cases that clear tryDecrypt.
SelfDecryptCase ==
    /\ executor = "SymmetricEncrypt"
    /\ options.noDecrypt = FALSE
    /\ Len(data.cleartext) > 0
    /\ PostResult # nullopt
    /\ PostResult[1].size > 0
    /\ ~(/\ results[1].module = OpenSSL
         /\ \/ data.cipherType \in {"AES_128_OCB", "AES_256_OCB"}
            \/ data.cipherType = "AES_128_GCM" /\ data.tagSize = nullopt)

\* C14: in the self-decrypt case the same module's OpSymmetricDecrypt is invoked
\* once, on the ciphertext returned, with output size |cleartext| + 32, the AAD of
\* the operation and an empty modifier; postprocess aborts with reason "cannot
\* decrypt ciphertext" exactly when that call returns nullopt or bytes other than
\* the cleartext, and does not abort when the bytes are equal.
C14_SelfDecrypt ==
    (pc \in {"posted", "aborted"} /\ SelfDecryptCase) =>
       /\ Len(DecryptCalls) = 1
       /\ DecryptCalls[1].module = results[1].module
       /\ DecryptCalls[1].op.ciphertext = PostResult[1]
       /\ DecryptCalls[1].op.cleartextSize = Len(data.cleartext) + 32
       /\ DecryptCalls[1].op.aad = data.aad
       /\ DecryptCalls[1].op.modifier = <<>>
       /\ CannotDecrypt <=>
             (DecryptCalls[1].ret = nullopt \/ DecryptCalls[1].ret[1] # data.cleartext)
       /\ ~CannotDecrypt => pc = "posted" /\ abortReason = nullopt

\* The abort on a decryption that ostensibly succeeded, for an operation with a
\* modifier and an AAD.
C14_Witness ==
    /\ pc = "aborted"
    /\ SelfDecryptCase
    /\ CannotDecrypt
    /\ data.modifier # <<>>
    /\ data.aad # nullopt
    /\ DecryptCalls[1].ret = Some(data.cleartext \o <<0>>)


(***************************************************************************)
(* C18: determinism of selection                                            *)
(***************************************************************************)
SecondRunOver == replay.on /\ replay.run = 2 /\ pc \in {"done", "returned", "aborted"}

KeyPairGenerators == {"DH_GenerateKeyPair", "ECC_GenerateKeyPair"}

\* C21 as stated: dontCompare(op) is true for the operation of every
\* DH_GenerateKeyPair and ECC_GenerateKeyPair Run that reaches compare.
C21_DontCompareTrue ==
    (Family(executor) \in KeyPairGenerators /\ pc = "compare") =>
        dontCompare(operations[1].op) = TRUE

\* C21: in a DH_GenerateKeyPair or ECC_GenerateKeyPair Run dontCompare(op) is false
\* for the operation that reaches compare, and the Run never aborts with reason
\* "difference": the family's own compare does nothing.
C21_KeyPairGeneratorsNeverDiffer ==
    Family(executor) \in KeyPairGenerators =>
        /\ pc = "compare" => dontCompare(operations[1].op) = FALSE
        /\ abortReason # Some("difference")

\* Such a Run ending normally, noCompare false, two modules having returned
\* unequal key pairs.
C21_Witness ==
    /\ Family(executor) \in KeyPairGenerators
    /\ pc = "done"
    /\ options.noCompare = FALSE
    /\ \E j, k \in 1..Len(results) :
          /\ results[j].result # nullopt /\ results[k].result # nullopt
          /\ results[j].result # results[k].result


(***************************************************************************)
(* C22: the OCB exemption of the self-decrypt check                         *)
(***************************************************************************)
AesOcbCiphers == {"AES_128_OCB", "AES_192_OCB", "AES_256_OCB"}

\* C22: in the SymmetricEncrypt postprocess on the OpenSSL module with any AES OCB
\* cipher, OpSymmetricDecrypt is not invoked and postprocess does not abort with
\* reason "cannot decrypt ciphertext", whatever the ciphertext.
C22_OcbExemption ==
    (/\ executor = "SymmetricEncrypt"
     /\ results # <<>>
     /\ results[1].module = OpenSSL
     /\ data.cipherType \in AesOcbCiphers) =>
        DecryptCalls = <<>> /\ ~CannotDecrypt


(***************************************************************************)
(* C23: the drawing phase                                                   *)
(***************************************************************************)
\* The module id a draw targets, and whether it names no usable module.
EffectiveID(id) == IF options.forceModule # nullopt THEN options.forceModule[1] ELSE id
Rejected(id) == EffectiveID(id) \notin ModuleIDs \/ EffectiveID(id) \in options.disableModules

DrawBounds ==
    /\ pc \in {"draw", "expand"} => Len(operations) <= MaxOperations
    /\ nDrawn <= MaxOperations
    /\ (pc = "returned" /\ nDrawn = 0) => operations = <<>> /\ NothingExecuted
    /\ pc \in {"gate", "exec", "compare", "done", "aborted"} => nDrawn >= 1

DrawStep ==
    pc = "draw" =>
       LET d == lastDraw'[1] IN
         IF Rejected(d.moduleID)
         THEN /\ operations' = operations
              /\ d.more # nullopt
              /\ pc' = IF d.more[1] THEN "draw" ELSE "expand"
         ELSE /\ Len(operations') = Len(operations) + 1
              /\ operations'[Len(operations')].module = EffectiveID(d.moduleID)

EmptyReturns == (pc = "expand" /\ operations = <<>>) => pc' = "returned"

SubstDrawn == executor = "ECDH_Derive" /\ pc = "expand" /\ lastDraw # nullopt /\ operations # <<>>
Subst == lastDraw[1].sub
SubstFails ==
    \/ Subst.bit = FALSE
    \/ Rejected(Subst.moduleID)
    \/ Subst.op1.curveType # Subst.op2.curveType
    \/ Subst.pub1 = nullopt
    \/ Subst.pub2 = nullopt

\* C24: getOpPostprocess of ECDH_Derive returns the original operation unchanged when
\* the Datasource bit is false, the picked module is unknown or disabled, the two
\* ECC_PrivateToPublic operations differ in curve, or either OpECC_PrivateToPublic
\* returns nullopt; otherwise it returns an ECDH_Derive with the original modifier,
\* the shared curve and the two public keys returned.
C24_Substitution ==
    SubstDrawn =>
       \E m \in parentDs.modifiers :
          operations[Len(operations)].op =
             IF SubstFails
             THEN [data EXCEPT !.modifier = m]
             ELSE [modifier |-> m, curveType |-> Subst.op1.curveType,
                   pub1 |-> Subst.pub1[1], pub2 |-> Subst.pub2[1]]

\* A substitution that succeeded, on a curve other than the original operation's.
C24_Witness ==
    /\ SubstDrawn
    /\ ~SubstFails
    /\ operations[1].op.curveType # data.curveType
    /\ operations[1].op.modifier # NoModifier


(***************************************************************************)
(* C25: the verifiers are not capped                                        *)
(***************************************************************************)
VerifierComponents(op) == {op.pub[1], op.pub[2], op.signature[1], op.signature[2]}

\* C25: callModule of ECDSA_Verify invokes the module for every operation whose
\* curve and digest are enabled, and callModule of BLS_Verify for every operation,
\* whatever the lengths of the public key and signature components.
C25_VerifiersUncapped ==
    /\ (Called /\ executor = "ECDSA_Verify" /\ data.curveType \in options.curves
          /\ data.digestType \in options.digests) => InvokedOnce
    /\ (Called /\ executor = "BLS_Verify") => InvokedOnce

\* BLS_Verify invoked with an empty component and one longer than 4096.
C25_Witness ==
    /\ Called
    /\ executor = "BLS_Verify"
    /\ \E bn \in VerifierComponents(data) : bn.digits = 0
    /\ \E bn \in VerifierComponents(data) : bn.digits > 4096
    /\ \E bn \in VerifierComponents(data) : bn.digits > kMaxBignumSize
    /\ InvokedOnce
    /\ results[1].result # nullopt


(***************************************************************************)
(* C26: the tasks of a Run carry the same inputs                            *)
(***************************************************************************)
\* The operation without its modifier.
Inputs(op) == [op EXCEPT !.modifier = NoModifier]

\* The inputs the byte buffer decodes to for this executor.
BufferInputs ==
    IF executor \in ModularExecutors
    THEN [Inputs(data) EXCEPT !.modulo = ExecutorModulo(executor)]
    ELSE Inputs(data)

\* C26: for every executor with the default getOpPostprocess and for the modular
\* BignumCalc variants, every task of a Run, as listed and as dispatched, carries
\* the inputs decoded from the start of the byte buffer; tasks differ in their
\* modifier only.
C26_SameInputs ==
    executor # "ECDH_Derive" =>
       /\ \A i \in 1..Len(operations) : Inputs(operations[i].op) = BufferInputs
       /\ \A i \in 1..Len(dispatched) : Inputs(dispatched[i].op) = BufferInputs

\* A compared Run whose tasks differ in their modifier.
C26_Witness ==
    /\ pc = "done"
    /\ options.noCompare = FALSE
    /\ Len(filter(results)) >= 2
    /\ \E i, j \in 1..Len(dispatched) : dispatched[i].op.modifier # dispatched[j].op.modifier


(***************************************************************************)
(* C27: the bound of the task list and the fan-out tasks                    *)
(***************************************************************************)
\* The registered modules that are not disabled.
EnabledModules == ModuleIDs \ options.disableModules

\* The Run is past the fan-out.
Expanded == nDrawn > 0 /\ pc \in {"gate", "exec", "compare", "done", "aborted", "returned"}

\* C27: past the fan-out the task list has at most MaxOperations + (E - 1) entries,
\* E being the number of registered modules not disabled; every module appended by
\* the fan-out comes after the drawn tasks and appears once in the whole list, and
\* its task is listed and dispatched with the operation of tasks[0], modifier
\* included and never mutated.
C27_TaskListBound ==
    Expanded =>
       /\ Len(operations) <= MaxOperations + (Cardinality(EnabledModules) - 1)
       /\ \A k \in (nDrawn + 1)..Len(operations) :
             /\ Cardinality({i \in 1..Len(operations) :
                               operations[i].module = operations[k].module}) = 1
             /\ operations[k].op = drawn[1].op
             /\ operations[k].op = operations[1].op
             /\ k <= Len(dispatched) => dispatched[k].op = drawn[1].op

\* A Run over with a task list at the bound, a drawn task mutated and the first
\* task carrying a modifier.
C27_Witness ==
    /\ pc = "done"
    /\ EnabledModules = ModuleIDs
    /\ nDrawn = MaxOperations
    /\ Len(operations) = MaxOperations + (NumModules - 1)
    /\ drawn[1].op.modifier # NoModifier
    /\ \E i \in 1..nDrawn : dispatched[i].op.modifier # drawn[i].op.modifier


(***************************************************************************)
(* C28: forceModule constrains the drawn tasks only                         *)
(***************************************************************************)
Forced == options.forceModule # nullopt
ForcedUsable == Forced /\ options.forceModule[1] \in ModuleIDs \ options.disableModules
TaskLoopOver == pc \in {"compare", "done"} \/ abortReason = Some("difference")

\* C28: with options.forceModule naming a registered module M that is not disabled,
\* every drawn task targets M and the fan-out appends one task for each other
\* registered module not disabled, so that when the task loop is over each of them
\* has been invoked and has its result in the result set compare is given; with
\* forceModule naming an unknown or disabled module no task is ever accepted and
\* nothing is executed.
C28_ForceModule ==
    /\ (ForcedUsable /\ nDrawn > 0) =>
          /\ \A i \in 1..nDrawn : operations[i].module = options.forceModule[1]
          /\ {operations[k].module : k \in (nDrawn + 1)..Len(operations)} =
                (ModuleIDs \ options.disableModules) \ {options.forceModule[1]}
          /\ Len(operations) - nDrawn =
                Cardinality((ModuleIDs \ options.disableModules) \ {options.forceModule[1]})
    /\ (ForcedUsable /\ TaskLoopOver /\ data.digestType \in options.digests) =>
          \A m \in ModuleIDs \ options.disableModules :
             /\ \E i \in 1..Len(calls) : calls[i].module = m
             /\ \E i \in 1..Len(results) : results[i].module = m
    /\ (Forced /\ ~ForcedUsable) =>
          /\ operations = <<>>
          /\ pc \in {"draw", "expand", "returned"}
          /\ NothingExecuted

\* A Run forced to module 2 that aborts on a difference with another module's result.
C28_Witness ==
    /\ ForcedUsable
    /\ abortReason = Some("difference")
    /\ nDrawn > 0
    /\ \A i \in 1..nDrawn : operations[i].module = 2
    /\ \E i, j \in 1..Len(results) :
          /\ results[i].module = 2 /\ results[j].module # 2
          /\ results[i].result # nullopt /\ results[j].result # nullopt
          /\ results[i].result # results[j].result


(***************************************************************************)
(* C29: the module calls of the ECDH_Derive substitution                    *)
(***************************************************************************)
\* The substitution got as far as asking the picked module for the first public key.
SubstAsks ==
    /\ SubstDrawn
    /\ Subst.bit = TRUE
    /\ ~Rejected(Subst.moduleID)
    /\ Subst.op1.curveType = Subst.op2.curveType

\* C29: in the substitution path of ECDH_Derive the picked module's
\* OpECC_PrivateToPublic is invoked on the first synthesized operation, and on the
\* second when the first call returned a key, whatever options.curves and the length
\* of the private keys; the calls are made while the task list is drawn: no task has
\* been dispatched, tested or given a result.
C29_UngatedCalls ==
    /\ SubstAsks =>
          /\ Len(calls) >= 1
          /\ calls[1] = [module |-> EffectiveID(Subst.moduleID),
                         method |-> "ECC_PrivateToPublic", op |-> Subst.op1,
                         ret |-> Subst.pub1]
          /\ Subst.pub1 # nullopt =>
                /\ Len(calls) = 2
                /\ calls[2] = [module |-> EffectiveID(Subst.moduleID),
                               method |-> "ECC_PrivateToPublic", op |-> Subst.op2,
                               ret |-> Subst.pub2]
    /\ (executor = "ECDH_Derive" /\ pc \in {"draw", "expand", "gate"}) =>
          dispatched = <<>> /\ results = <<>> /\ tested = <<>>

\* The module is asked for the public key of a private key longer than 4096 on a
\* curve options.curves does not enable, before any task is executed.
C29_Witness ==
    /\ SubstAsks
    /\ Subst.op1.curveType \notin options.curves
    /\ Subst.op1.priv.digits > 4096
    /\ Len(calls) = 2
    /\ dispatched = <<>>


(***************************************************************************)
(* C30: BLS_GenerateKeyPair and the default comparator                      *)
(***************************************************************************)
\* Two modules returned present, unequal results.
UnequalPair ==
    \E i, j \in 1..Len(results) :
       /\ results[i].result # nullopt
       /\ results[j].result # nullopt
       /\ results[i].result # results[j].result

\* C30: a BLS_GenerateKeyPair Run with noCompare false never ends normally when two
\* modules returned present, unequal key pairs: it aborts, and only with reason
\* "difference" and only in that case.
C30_BlsKeyPairsCompared ==
    (executor = "BLS_GenerateKeyPair" /\ options.noCompare = FALSE) =>
       /\ pc = "done" => ~UnequalPair
       /\ pc = "aborted" => abortReason = Some("difference") /\ UnequalPair

\* Such a Run aborted on the key pairs of two modules.
C30_Witness ==
    /\ executor = "BLS_GenerateKeyPair"
    /\ options.noCompare = FALSE
    /\ pc = "aborted"
    /\ abortReason = Some("difference")
    /\ Len(results) = NumModules

====
